---- MODULE Spec2Model ----
(***************************************************************************)
(* The console input of the web client: command history navigation, the   *)
(* map of modified commands, and the paginated, cancelable loading of the  *)
(* command history from the remote command history table.                  *)
(* Source: packages/components/src/spectrum/forms.ts (class ConsoleInput). *)
(* And the hook that applies filter condition factories to a table.        *)
(* Source: packages/jsapi-components/src/useFilterConditionFactories.ts.   *)
(***************************************************************************)
EXTENDS Integers, Sequences, FiniteSets, TLC

\* ------------------------------------------------------------------------
\* Constants of the program
\* ------------------------------------------------------------------------
BUFFER_SIZE == 100

\* The value null / undefined of an index (commandHistoryIndex, bufferIndex,
\* a key of modifiedCommands).  Indexes of the program are >= 0.
Null == -1

\* ------------------------------------------------------------------------
\* Bounds of the model
\* ------------------------------------------------------------------------
\* The deepest history index the user browses to with ArrowUp.
MaxIndex == 1
\* The number of acts of the user and of the owner of the component that
\* leave a trace: texts typed, calls of setConsoleText and of clear, and
\* submissions that append to the history.
MaxActs == 2
\* The number of filter condition factories given to the hook.
MaxFactories == 2

\* ------------------------------------------------------------------------
\* Texts: a text is a sequence of characters
\* ------------------------------------------------------------------------
Texts == { <<>>, <<"a">>, <<" ", "b", "\n", "a">> }

IsWhiteSpace(ch) == ch \in {" ", "\n"}

RECURSIVE trimStart(_)
trimStart(t) ==
  IF t = <<>> THEN t
  ELSE IF IsWhiteSpace(Head(t)) THEN trimStart(Tail(t)) ELSE t

RECURSIVE trimEnd(_)
trimEnd(t) ==
  IF t = <<>> THEN t
  ELSE IF IsWhiteSpace(t[Len(t)]) THEN trimEnd(SubSeq(t, 1, Len(t) - 1)) ELSE t

\* String.prototype.trim
trim(t) == trimEnd(trimStart(t))

\* ITextModel.getLineCount
getLineCount(t) == 1 + Cardinality({i \in 1..Len(t) : t[i] = "\n"})

Reverse(s) == [i \in 1..Len(s) |-> s[Len(s) + 1 - i]]

\* ------------------------------------------------------------------------
\* The remote command history table (reversed: row 0 is the newest command)
\* ------------------------------------------------------------------------
Tables ==
  { [size |-> 3,   dup |-> TRUE],
    [size |-> 200, dup |-> FALSE] }

\* The name (command text) of row k of the reversed table.
RowName(tbl, k) ==
  IF tbl.dup
    THEN (IF k % 3 = 0 THEN <<"b">> ELSE <<"a">>)
    ELSE (IF k % 2 = 0 THEN <<"a">> ELSE <<"b">>)

Min(a, b) == IF a < b THEN a ELSE b

\* table.setViewport({top, bottom}); table.getViewportData(): the rows
\* top..bottom that exist, in the order of the (reversed) table.
getViewportData(tbl, top, bottom) ==
  LET last == Min(bottom, tbl.size - 1)
      n == IF last < top THEN 0 ELSE last - top + 1
  IN [i \in 1..n |-> RowName(tbl, top + i - 1)]

\* items.filter(({name}, pos, arr) => pos === 0 || name !== arr[pos - 1].name)
\* on the positions lo..hi of items (the first position is 1 here).
RECURSIVE filterRepeats(_, _, _)
filterRepeats(items, lo, hi) ==
  IF lo > hi THEN <<>>
  ELSE IF lo = hi
    THEN (IF lo = 1 \/ items[lo] # items[lo - 1] THEN <<items[lo]>> ELSE <<>>)
    ELSE LET mid == (lo + hi) \div 2
         IN filterRepeats(items, lo, mid) \o filterRepeats(items, mid + 1, hi)

\* ------------------------------------------------------------------------
\* State
\* ------------------------------------------------------------------------
VARIABLES
  table,                \* the remote table behind commandHistoryStorage
  lifecycle,            \* "constructed", "mounted" or "unmounted"
  commandHistoryIndex,  \* Null or the history offset being browsed
  bufferIndex,          \* Null (fully loaded) or the top of the next page
  history,              \* the loaded commands, oldest first
  modifiedCommands,     \* function: index or Null -> edited text
  loadingPromise,       \* "none", "table" or "data": the cancelable promise
  value,                \* the text of the command editor
  lineNumber,           \* the line of the cursor in the editor
  pc,                   \* loadMoreHistory: "idle", "awaitTable", "awaitData"
  remote,               \* pending remote call: "none", "getTable", "getViewportData"
  hasCanceled,          \* the cancelable promise in loadingPromise was canceled
  viewportTop,          \* top of the viewport set on the table (Null: none)
  tableState,           \* the table of the current fetch: "none", "open", "closed"
  userEdits,            \* history: index or Null -> text the user last gave it
  acts,                 \* history: number of acts counted by MaxActs
  op,                   \* history: the operation that led to this state
  filterHook            \* useFilterConditionFactories: its memo and last call

vars == << table, lifecycle, commandHistoryIndex, bufferIndex, history,
           modifiedCommands, loadingPromise, value, lineNumber, pc, remote,
           hasCanceled, viewportTop, tableState, userEdits, acts, op,
           filterHook >>

Empty == [i \in {} |-> <<>>]

\* The component as one record, for the handlers below; the fields after
\* tableState record what the running handler did.
this ==
  [ commandHistoryIndex |-> commandHistoryIndex,
    bufferIndex         |-> bufferIndex,
    history             |-> history,
    modifiedCommands    |-> modifiedCommands,
    loadingPromise      |-> loadingPromise,
    value               |-> value,
    lineNumber          |-> lineNumber,
    pc                  |-> pc,
    remote              |-> remote,
    hasCanceled         |-> hasCanceled,
    viewportTop         |-> viewportTop,
    tableState          |-> tableState,
    submitted           |-> <<>>,   \* the arguments of the calls of onSubmit
    loadMoreCalls       |-> 0,      \* calls of loadMoreHistory
    fetchStarts         |-> 0,      \* calls of commandHistoryStorage.getTable
    loadCalls           |-> <<>>,   \* the arguments of the calls of loadCommand
    errorsLogged        |-> 0 ]     \* calls of log.error

\* ------------------------------------------------------------------------
\* The command editor
\* ------------------------------------------------------------------------
\* commandEditor.onDidChangeModelContent: the listener records the text of
\* the editor under the index that is current when the content changes.
onDidChangeModelContent(s) ==
  [s EXCEPT !.modifiedCommands = (s.commandHistoryIndex :> s.value) @@ @]

\* ITextModel.setValue: replaces the text, puts the cursor on line 1 and
\* fires the content listener before it returns, also when the text is the
\* same as before.
setValue(s, text) ==
  onDidChangeModelContent([s EXCEPT !.value = text, !.lineNumber = 1])

focusStart(s) == [s EXCEPT !.lineNumber = 1]

focusEnd(s) == [s EXCEPT !.lineNumber = getLineCount(s.value)]

\* ------------------------------------------------------------------------
\* Loading of the history
\* ------------------------------------------------------------------------
\* loadMoreHistory without its test of loadingPromise: a request made while
\* a fetch is in flight starts another fetch.
loadMoreHistory_NoInFlightGuard(s) ==
  IF s.bufferIndex = Null
    THEN [s EXCEPT !.loadMoreCalls = @ + 1]
    ELSE [s EXCEPT !.loadMoreCalls = @ + 1,
                   !.fetchStarts = @ + 1,
                   !.loadingPromise = "table",
                   !.hasCanceled = FALSE,
                   !.remote = "getTable",
                   !.tableState = "none",
                   !.viewportTop = Null,
                   !.pc = "awaitTable"]

\* loadMoreHistory taking a fetch as in flight only until it has the table.
loadMoreHistory_GuardsTableStageOnly(s) ==
  IF s.loadingPromise = "table" \/ s.bufferIndex = Null
    THEN [s EXCEPT !.loadMoreCalls = @ + 1]
    ELSE [s EXCEPT !.loadMoreCalls = @ + 1,
                   !.fetchStarts = @ + 1,
                   !.loadingPromise = "table",
                   !.hasCanceled = FALSE,
                   !.remote = "getTable",
                   !.tableState = "none",
                   !.viewportTop = Null,
                   !.pc = "awaitTable"]

\* loadMoreHistory up to its first await.
loadMoreHistory(s) ==
  IF s.loadingPromise # "none" \/ s.bufferIndex = Null
    THEN [s EXCEPT !.loadMoreCalls = @ + 1]
    ELSE [s EXCEPT !.loadMoreCalls = @ + 1,
                   !.fetchStarts = @ + 1,
                   !.loadingPromise = "table",
                   !.hasCanceled = FALSE,
                   !.remote = "getTable",
                   !.tableState = "none",
                   !.viewportTop = Null,
                   !.pc = "awaitTable"]

\* The catch block without its reset of loadingPromise.
catchBlock_KeepsPromise(s, isCanceled) ==
  [s EXCEPT !.pc = "idle",
            !.errorsLogged = IF isCanceled THEN @ ELSE @ + 1]

\* The catch block of loadMoreHistory.
catchBlock(s, isCanceled) ==
  [s EXCEPT !.loadingPromise = "none",
            !.pc = "idle",
            !.errorsLogged = IF isCanceled THEN @ ELSE @ + 1]

\* loadMoreHistory from the table being obtained to its second await;
\* throws: table.setReversed or table.setViewport throws.
afterGetTable(s, throws) ==
  IF throws
    THEN catchBlock([s EXCEPT !.tableState = "open"], FALSE)
    ELSE [s EXCEPT !.tableState = "open",
                   !.viewportTop = s.bufferIndex,
                   !.loadingPromise = "data",
                   !.hasCanceled = FALSE,
                   !.remote = "getViewportData",
                   !.pc = "awaitData"]

\* The end of loadMoreHistory taking the history as fully loaded only when
\* bufferIndex is beyond table.size.
afterGetViewportData_EndsLate(s, tbl) ==
  LET viewportData ==
        getViewportData(tbl, s.viewportTop, s.viewportTop + BUFFER_SIZE - 1)
      next == s.bufferIndex + BUFFER_SIZE
  IN [s EXCEPT !.bufferIndex = IF next > tbl.size THEN Null ELSE next,
               !.history = Reverse(filterRepeats(viewportData, 1, Len(viewportData))) \o @,
               !.loadingPromise = "none",
               !.tableState = "closed",
               !.pc = "idle"]

\* The end of loadMoreHistory putting the page after the history.
afterGetViewportData_Appends(s, tbl) ==
  LET viewportData ==
        getViewportData(tbl, s.viewportTop, s.viewportTop + BUFFER_SIZE - 1)
      next == s.bufferIndex + BUFFER_SIZE
  IN [s EXCEPT !.bufferIndex = IF next >= tbl.size THEN Null ELSE next,
               !.history = @ \o Reverse(filterRepeats(viewportData, 1, Len(viewportData))),
               !.loadingPromise = "none",
               !.tableState = "closed",
               !.pc = "idle"]

\* loadMoreHistory from the viewport data being obtained to its end.
afterGetViewportData(s, tbl) ==
  LET viewportData ==
        getViewportData(tbl, s.viewportTop, s.viewportTop + BUFFER_SIZE - 1)
      next == s.bufferIndex + BUFFER_SIZE
  IN [s EXCEPT !.bufferIndex = IF next >= tbl.size THEN Null ELSE next,
               !.history = Reverse(filterRepeats(viewportData, 1, Len(viewportData))) \o @,
               !.loadingPromise = "none",
               !.tableState = "closed",
               !.pc = "idle"]

\* PromiseUtils.makeCancelable(promise, cleanup): cancel() of the promise.
\* The promise rejects with a cancellation, which its awaiter sees later.
cancel(s) == [s EXCEPT !.hasCanceled = TRUE]

\* PromiseUtils.makeCancelable(promise, cleanup): cleanup of a canceled
\* promise whose remote call resolves.  Both cleanups close the table.
cleanup(s) == [s EXCEPT !.tableState = "closed"]

\* ------------------------------------------------------------------------
\* Commands
\* ------------------------------------------------------------------------
\* loadCommand with the backfill starting one index later.
loadCommand_LateBackfill(s, index) ==
  IF index # Null /\ index >= Len(s.history)
    THEN [s EXCEPT !.loadCalls = Append(@, index)]
    ELSE
      LET hasModified == index \in DOMAIN s.modifiedCommands
          historyValue ==
            IF index = Null THEN <<>> ELSE s.history[Len(s.history) - index]
          s1 == [s EXCEPT !.loadCalls = Append(@, index),
                          !.commandHistoryIndex = index]
          s2 == setValue(s1, IF hasModified THEN s.modifiedCommands[index]
                                            ELSE historyValue)
      IN IF index # Null /\ index > Len(s.history) - BUFFER_SIZE + 1
           THEN loadMoreHistory(s2)
           ELSE s2

\* loadCommand letting through the index history.length; the text of a
\* command that does not exist is taken as empty.
loadCommand_OffByOneGuard(s, index) ==
  IF index # Null /\ index > Len(s.history)
    THEN [s EXCEPT !.loadCalls = Append(@, index)]
    ELSE
      LET hasModified == index \in DOMAIN s.modifiedCommands
          historyValue ==
            IF index = Null \/ index >= Len(s.history)
              THEN <<>> ELSE s.history[Len(s.history) - index]
          s1 == [s EXCEPT !.loadCalls = Append(@, index),
                          !.commandHistoryIndex = index]
          s2 == setValue(s1, IF hasModified THEN s.modifiedCommands[index]
                                            ELSE historyValue)
      IN IF index # Null /\ index > Len(s.history) - BUFFER_SIZE
           THEN loadMoreHistory(s2)
           ELSE s2

loadCommand(s, index) ==
  IF index # Null /\ index >= Len(s.history)
    THEN [s EXCEPT !.loadCalls = Append(@, index)]
    ELSE
      LET hasModified == index \in DOMAIN s.modifiedCommands
          historyValue ==
            IF index = Null THEN <<>> ELSE s.history[Len(s.history) - index]
          s1 == [s EXCEPT !.loadCalls = Append(@, index),
                          !.commandHistoryIndex = index]
          s2 == setValue(s1, IF hasModified THEN s.modifiedCommands[index]
                                            ELSE historyValue)
      IN IF index # Null /\ index > Len(s.history) - BUFFER_SIZE
           THEN loadMoreHistory(s2)
           ELSE s2

\* processCommand without modifiedCommands.clear().
processCommand_NoClear(s, command) ==
  LET s1 == [s EXCEPT !.commandHistoryIndex = Null]
      s2 == IF /\ command # <<>>
               /\ \/ Len(s1.history) = 0
                  \/ command # s1.history[Len(s1.history)]
              THEN [s1 EXCEPT !.history = Append(@, command)]
              ELSE s1
  IN [s2 EXCEPT !.submitted = Append(@, command)]

\* processCommand appending also a command that repeats the last one.
processCommand_PushesRepeats(s, command) ==
  LET s1 == [s EXCEPT !.commandHistoryIndex = Null,
                      !.modifiedCommands = Empty]
      s2 == IF command # <<>>
              THEN [s1 EXCEPT !.history = Append(@, command)]
              ELSE s1
  IN [s2 EXCEPT !.submitted = Append(@, command)]

processCommand(s, command) ==
  LET s1 == [s EXCEPT !.commandHistoryIndex = Null,
                      !.modifiedCommands = Empty]
      s2 == IF /\ command # <<>>
               /\ \/ Len(s1.history) = 0
                  \/ command # s1.history[Len(s1.history)]
              THEN [s1 EXCEPT !.history = Append(@, command)]
              ELSE s1
  IN [s2 EXCEPT !.submitted = Append(@, command)]

\* setConsoleText without the reset of commandHistoryIndex before setValue.
setConsoleText_KeepsIndex(s, text, focus, execute) ==
  IF text = <<>>
    THEN s
    ELSE
      LET s1 == IF ~execute THEN setValue(s, text) ELSE s
          s2 == IF focus THEN focusEnd(s1) ELSE s1
      IN IF execute THEN processCommand(s2, text) ELSE s2

\* setConsoleText setting the text of the editor also when it runs the
\* command.
setConsoleText_AlwaysSetsText(s, text, focus, execute) ==
  IF text = <<>>
    THEN s
    ELSE
      LET s1 == setValue([s EXCEPT !.commandHistoryIndex = Null], text)
          s2 == IF focus THEN focusEnd(s1) ELSE s1
      IN IF execute THEN processCommand(s2, text) ELSE s2

setConsoleText(s, text, focus, execute) ==
  IF text = <<>>
    THEN s
    ELSE
      LET s1 == IF ~execute
                  THEN setValue([s EXCEPT !.commandHistoryIndex = Null], text)
                  ELSE s
          s2 == IF focus THEN focusEnd(s1) ELSE s1
      IN IF execute THEN processCommand(s2, text) ELSE s2

clear(s) ==
  [setValue(s, <<>>) EXCEPT !.commandHistoryIndex = Null]

\* The keys of the model and the flags of a key event: modifier is
\* altKey || shiftKey || metaKey, suggest is isSuggestionMenuPopulated().
KeyCodes == {"ArrowUp", "ArrowDown", "Enter"}

\* The key event is one of those the onKeyDown listener acts on.
isHandledKey(s, code, modifier, suggest) ==
  /\ ~modifier
  /\ ~suggest
  /\ \/ code = "ArrowUp" /\ s.lineNumber = 1
     \/ code = "ArrowDown" /\ s.lineNumber = getLineCount(s.value)
     \/ code = "Enter"

\* The listener with Enter not emptying the editor.
onKeyDown_NoReset(s, code, modifier, suggest) ==
  LET index == s.commandHistoryIndex
  IN IF ~isHandledKey(s, code, modifier, suggest) THEN s
     ELSE IF code = "ArrowUp"
       THEN focusStart(loadCommand(s, IF index # Null THEN index + 1 ELSE 0))
     ELSE IF code = "ArrowDown"
       THEN focusEnd(loadCommand(s, IF index # Null /\ index > 0
                                      THEN index - 1 ELSE Null))
     ELSE processCommand(s, trim(s.value))

\* The listener with ArrowDown always going back to the fresh command.
onKeyDown_ArrowDownToNull(s, code, modifier, suggest) ==
  LET index == s.commandHistoryIndex
  IN IF ~isHandledKey(s, code, modifier, suggest) THEN s
     ELSE IF code = "ArrowUp"
       THEN focusStart(loadCommand(s, IF index # Null THEN index + 1 ELSE 0))
     ELSE IF code = "ArrowDown"
       THEN focusEnd(loadCommand(s, Null))
     ELSE setValue(processCommand(s, trim(s.value)), <<>>)

\* The listener of commandEditor.onKeyDown.
onKeyDown(s, code, modifier, suggest) ==
  LET index == s.commandHistoryIndex
  IN IF ~isHandledKey(s, code, modifier, suggest) THEN s
     ELSE IF code = "ArrowUp"
       THEN focusStart(loadCommand(s, IF index # Null THEN index + 1 ELSE 0))
     ELSE IF code = "ArrowDown"
       THEN focusEnd(loadCommand(s, IF index # Null /\ index > 0
                                      THEN index - 1 ELSE Null))
     ELSE setValue(processCommand(s, trim(s.value)), <<>>)

\* What the editor does with an arrow key the listener lets through: the
\* cursor moves by a line.
editorDefault(s, code, modifier, suggest) ==
  IF modifier \/ suggest THEN s
  ELSE IF code = "ArrowUp" /\ s.lineNumber > 1
    THEN [s EXCEPT !.lineNumber = @ - 1]
  ELSE IF code = "ArrowDown" /\ s.lineNumber < getLineCount(s.value)
    THEN [s EXCEPT !.lineNumber = @ + 1]
  ELSE s

componentDidMount(s) == loadMoreHistory(s)

\* componentWillUnmount without the cancel of loadingPromise.
componentWillUnmount_NoCancel(s) == s

componentWillUnmount(s) ==
  IF s.loadingPromise # "none" THEN cancel(s) ELSE s

\* PromiseUtils.makeCancelable(promise, cleanup): a promise that was
\* canceled hands a value that arrives later to cleanup, not to its awaiter.
reachesAwaiter(s) == ~s.hasCanceled

\* ------------------------------------------------------------------------
\* useFilterConditionFactories
\* ------------------------------------------------------------------------
\* The values of maybeTable: null, undefined or a table.
MaybeTables == {"null", "undefined", "table1", "table2"}

\* The filter condition factories: two that give a condition of their own
\* for the table they get, one that gives null and one that gives undefined.
Factories == {"byName", "byValue", "givesNull", "givesUndefined"}

\* The argument lists ...filterConditionFactories.
FactoryLists == UNION { [1..n -> Factories] : n \in 0..MaxFactories }

NullCondition == <<"null">>

UndefinedCondition == <<"undefined">>

\* f(maybeTable)
ApplyFactory(f, maybeTable) ==
  IF f = "givesNull" THEN NullCondition
  ELSE IF f = "givesUndefined" THEN UndefinedCondition
  ELSE <<f, maybeTable>>

IsCondition(c) == c # NullCondition /\ c # UndefinedCondition

\* removeNullAndUndefined(...items)
removeNullAndUndefined(items) == SelectSeq(items, IsCondition)

\* The comparison of the dependencies of useMemo with those of the render
\* that computed the memo: the dependencies both lists have are compared,
\* in order.
areHookInputsEqual(nextDeps, prevDeps) ==
  \A i \in 1..Min(Len(nextDeps), Len(prevDeps)) : nextDeps[i] = prevDeps[i]

\* The hook before its first render.
NotRendered ==
  [ rendered |-> FALSE, deps |-> <<>>, memo |-> <<>>,
    maybeTable |-> "undefined", factories |-> <<>>,
    returned |-> <<>>, applied |-> <<>> ]

\* One render of useFilterConditionFactories(maybeTable, ...factories) by a
\* component whose hook is h: the memo is computed on the first render and
\* when a dependency changed.  applied: the arguments the factories were
\* called with in this render.
useFilterConditionFactories(h, maybeTable, factories) ==
  LET deps == <<maybeTable>> \o factories
  IN IF h.rendered /\ areHookInputsEqual(deps, h.deps)
       THEN [h EXCEPT !.maybeTable = maybeTable,
                      !.factories = factories,
                      !.returned = h.memo,
                      !.applied = <<>>]
       ELSE
         LET conditions ==
               removeNullAndUndefined(
                 [i \in 1..Len(factories) |->
                    ApplyFactory(factories[i], maybeTable)])
         IN [ rendered   |-> TRUE,
              deps       |-> deps,
              memo       |-> conditions,
              maybeTable |-> maybeTable,
              factories  |-> factories,
              returned   |-> conditions,
              applied    |-> [i \in 1..Len(factories) |-> maybeTable] ]

\* ------------------------------------------------------------------------
\* Initial state: the component after its constructor
\* ------------------------------------------------------------------------
NoInput == [ code |-> "", handled |-> FALSE, text |-> <<>>, execute |-> FALSE ]

\* The record of an operation: its name and inputs, the index it started
\* from and the calls it made.
OpRecord(name, in, s) ==
  [ name |-> name,
    in   |-> in,
    pre  |-> [ commandHistoryIndex |-> commandHistoryIndex ],
    did  |-> [ submitted     |-> s.submitted,
               loadCalls     |-> s.loadCalls,
               loadMoreCalls |-> s.loadMoreCalls,
               fetchStarts   |-> s.fetchStarts,
               errorsLogged  |-> s.errorsLogged ] ]

Init ==
  /\ table \in Tables
  /\ lifecycle = "constructed"
  /\ commandHistoryIndex = Null
  /\ bufferIndex = 0
  /\ history = <<>>
  /\ modifiedCommands = Empty
  /\ loadingPromise = "none"
  /\ value = <<>>
  /\ lineNumber = 1
  /\ pc = "idle"
  /\ remote = "none"
  /\ hasCanceled = FALSE
  /\ viewportTop = Null
  /\ tableState = "none"
  /\ userEdits = Empty
  /\ acts = 0
  /\ op = OpRecord("constructor", NoInput, this)
  /\ filterHook = NotRendered

\* The component becomes s; the operation is recorded.
Becomes(name, in, s) ==
  /\ commandHistoryIndex' = s.commandHistoryIndex
  /\ bufferIndex' = s.bufferIndex
  /\ history' = s.history
  /\ modifiedCommands' = s.modifiedCommands
  /\ loadingPromise' = s.loadingPromise
  /\ value' = s.value
  /\ lineNumber' = s.lineNumber
  /\ pc' = s.pc
  /\ remote' = s.remote
  /\ hasCanceled' = s.hasCanceled
  /\ viewportTop' = s.viewportTop
  /\ tableState' = s.tableState
  /\ op' = OpRecord(name, in, s)
  /\ table' = table
  /\ filterHook' = filterHook

\* A handler run for the user or for the owner of the component: n is 1
\* for an act that is counted whatever it does, and a submission that
\* appends to the history is counted; a handler that submitted ends the
\* user's edits, one that did not leaves them as edits.
UserDid(s, n, edits) ==
  /\ s.commandHistoryIndex <= MaxIndex
  /\ acts' = acts + n + (Len(s.history) - Len(history))
  /\ acts' <= MaxActs
  /\ userEdits' = IF s.submitted # <<>> THEN Empty ELSE edits

\* ------------------------------------------------------------------------
\* Operations
\* ------------------------------------------------------------------------
ComponentDidMount ==
  /\ lifecycle = "constructed"
  /\ lifecycle' = "mounted"
  /\ Becomes("componentDidMount", NoInput, componentDidMount(this))
  /\ UNCHANGED << userEdits, acts >>

KeyDown(code, modifier, suggest) ==
  /\ lifecycle = "mounted"
  /\ LET s == IF isHandledKey(this, code, modifier, suggest)
                THEN onKeyDown(this, code, modifier, suggest)
                ELSE editorDefault(this, code, modifier, suggest)
     IN /\ Becomes("onKeyDown",
                   [NoInput EXCEPT !.code = code,
                      !.handled = isHandledKey(this, code, modifier, suggest)],
                   s)
        /\ UserDid(s, 0, userEdits)
  /\ UNCHANGED lifecycle

\* The user changes the text of the editor to text, the cursor ending on
\* line: the editor fires its content listener.
Type(text, line) ==
  /\ lifecycle = "mounted"
  /\ text # value
  /\ line \in 1..getLineCount(text)
  /\ LET s == onDidChangeModelContent(
                [this EXCEPT !.value = text, !.lineNumber = line])
         edits == (commandHistoryIndex :> text) @@ userEdits
     IN /\ Becomes("type", [NoInput EXCEPT !.text = text], s)
        /\ UserDid(s, 1, edits)
  /\ UNCHANGED lifecycle

SetConsoleText(text, focus, execute) ==
  /\ lifecycle = "mounted"
  /\ LET s == setConsoleText(this, text, focus, execute)
     IN /\ Becomes("setConsoleText",
                   [NoInput EXCEPT !.text = text, !.execute = execute], s)
        /\ UserDid(s, 1, IF text # <<>> THEN (Null :> text) @@ userEdits
                                        ELSE userEdits)
  /\ UNCHANGED lifecycle

Clear ==
  /\ lifecycle = "mounted"
  /\ LET s == clear(this)
     IN /\ Becomes("clear", NoInput, s)
        /\ UserDid(s, 1, (Null :> <<>>) @@ userEdits)
  /\ UNCHANGED lifecycle

ComponentWillUnmount ==
  /\ lifecycle = "mounted"
  /\ lifecycle' = "unmounted"
  /\ Becomes("componentWillUnmount", NoInput, componentWillUnmount(this))
  /\ UNCHANGED << userEdits, acts >>

\* commandHistoryStorage.getTable resolves with the table.
GetTableResolves(throws) ==
  /\ remote = "getTable"
  /\ LET s0 == [this EXCEPT !.remote = "none"]
     IN IF reachesAwaiter(s0)
          THEN Becomes("getTableResolves", NoInput, afterGetTable(s0, throws))
          ELSE /\ ~throws
               /\ Becomes("getTableResolves", NoInput, cleanup(s0))
  /\ UNCHANGED << lifecycle, userEdits, acts >>

\* commandHistoryStorage.getTable rejects.
GetTableRejects ==
  /\ remote = "getTable"
  /\ LET s0 == [this EXCEPT !.remote = "none"]
     IN Becomes("getTableRejects", NoInput,
                IF reachesAwaiter(s0) THEN catchBlock(s0, FALSE) ELSE s0)
  /\ UNCHANGED << lifecycle, userEdits, acts >>

\* table.getViewportData resolves with the rows of the viewport.
GetViewportDataResolves ==
  /\ remote = "getViewportData"
  /\ LET s0 == [this EXCEPT !.remote = "none"]
     IN Becomes("getViewportDataResolves", NoInput,
                IF reachesAwaiter(s0) THEN afterGetViewportData(s0, table)
                                      ELSE cleanup(s0))
  /\ UNCHANGED << lifecycle, userEdits, acts >>

\* table.getViewportData rejects.
GetViewportDataRejects ==
  /\ remote = "getViewportData"
  /\ LET s0 == [this EXCEPT !.remote = "none"]
     IN Becomes("getViewportDataRejects", NoInput,
                IF reachesAwaiter(s0) THEN catchBlock(s0, FALSE) ELSE s0)
  /\ UNCHANGED << lifecycle, userEdits, acts >>

\* The await of loadMoreHistory sees the cancellation of its promise.
CanceledRejection ==
  /\ hasCanceled
  /\ pc # "idle"
  /\ Becomes("canceledRejection", NoInput, catchBlock(this, TRUE))
  /\ UNCHANGED << lifecycle, userEdits, acts >>

Next ==
  \/ ComponentDidMount
  \/ \E code \in KeyCodes, modifier \in BOOLEAN, suggest \in BOOLEAN :
       KeyDown(code, modifier, suggest)
  \/ \E text \in Texts, line \in 1..2 : Type(text, line)
  \/ \E text \in Texts, focus \in BOOLEAN, execute \in BOOLEAN :
       SetConsoleText(text, focus, execute)
  \/ Clear
  \/ ComponentWillUnmount
  \/ \E throws \in BOOLEAN : GetTableResolves(throws)
  \/ GetTableRejects
  \/ GetViewportDataResolves
  \/ GetViewportDataRejects
  \/ CanceledRejection

Spec == Init /\ [][Next]_vars

\* A component renders with useFilterConditionFactories(maybeTable,
\* ...factories).
Render(maybeTable, factories) ==
  /\ filterHook' =
       useFilterConditionFactories(filterHook, maybeTable, factories)
  /\ UNCHANGED << table, lifecycle, commandHistoryIndex, bufferIndex, history,
                  modifiedCommands, loadingPromise, value, lineNumber, pc,
                  remote, hasCanceled, viewportTop, tableState, userEdits,
                  acts, op >>

NextFilter ==
  \E maybeTable \in MaybeTables, factories \in FactoryLists :
    Render(maybeTable, factories)

\* The renders of a component that uses the hook.
SpecFilter == Init /\ [][NextFilter]_vars

\* ------------------------------------------------------------------------
\* Properties
\* ------------------------------------------------------------------------
\* The operation that led to the state.
IsKey(code) == op.name = "onKeyDown" /\ op.in.handled /\ op.in.code = code

Submitted == op.did.submitted # <<>>

\* The index the operation passed to loadCommand, when loadCommand loaded it
\* (Null - 1: loadCommand was not called, or returned early).
NotLoaded == Null - 1

LoadedIndex(o, h) ==
  IF o.did.loadCalls = <<>> THEN NotLoaded
  ELSE IF o.did.loadCalls[1] # Null /\ o.did.loadCalls[1] >= Len(h)
    THEN NotLoaded
    ELSE o.did.loadCalls[1]

\* history[history.length - index - 1], or '' for the fresh command.
Original(index) ==
  IF index = Null THEN <<>> ELSE history[Len(history) - index]

\* C1 as stated: once a submission (the Enter key, or setConsoleText with
\* execute) has been handled, modifiedCommands has no entry for any index,
\* the null index included.
C1_NoEntryAfterSubmit ==
  Submitted => DOMAIN modifiedCommands = {}

\* C1 amended: once a submission has been handled, modifiedCommands has no
\* entry for a history index; after setConsoleText with execute it is empty,
\* and after Enter its one entry is the null index with the empty text,
\* which the reset of the editor records.
C1_NoHistoryEntryAfterSubmit ==
  Submitted =>
    /\ \A i \in DOMAIN modifiedCommands : i = Null /\ modifiedCommands[i] = <<>>
    /\ op.name = "setConsoleText" => DOMAIN modifiedCommands = {}
    /\ op.name = "onKeyDown" => DOMAIN modifiedCommands = {Null}

\* Enter has been handled while a history index was being browsed, whose
\* text loadCommand had recorded in modifiedCommands.
C1_Witness ==
  /\ IsKey("Enter")
  /\ Submitted
  /\ op.pre.commandHistoryIndex # Null
  /\ modifiedCommands = (Null :> <<>>)

\* C2: after a plain Enter (no modifier, suggestion menu not populated) has
\* been handled, commandHistoryIndex is null and the editor is empty.
C2_EnterResets ==
  IsKey("Enter") => commandHistoryIndex = Null /\ value = <<>>

\* Enter has been handled while a history index was being browsed and the
\* editor held a command.
C2_Witness ==
  /\ IsKey("Enter")
  /\ op.pre.commandHistoryIndex # Null
  /\ op.did.submitted # <<>>
  /\ op.did.submitted[1] # <<>>
  /\ commandHistoryIndex = Null
  /\ value = <<>>

\* C3: a plain ArrowUp on line 1 moves from the fresh command to index 0
\* and from index i to i + 1, unless that index is >= history.length, and
\* then commandHistoryIndex and the text of the editor stay as they are; a
\* plain ArrowDown on the last line moves from i > 0 to i - 1 and from 0 or
\* the fresh command to the fresh command.
C3_NavigationByOne ==
  [][ (op'.name = "onKeyDown" /\ op'.in.handled) =>
        /\ op'.in.code = "ArrowUp" =>
             LET target == IF commandHistoryIndex = Null
                             THEN 0 ELSE commandHistoryIndex + 1
             IN IF target < Len(history)
                  THEN commandHistoryIndex' = target
                  ELSE /\ commandHistoryIndex' = commandHistoryIndex
                       /\ value' = value
        /\ op'.in.code = "ArrowDown" =>
             commandHistoryIndex' =
               IF commandHistoryIndex # Null /\ commandHistoryIndex > 0
                 THEN commandHistoryIndex - 1 ELSE Null
    ]_vars

\* ArrowUp has moved from index 0 to index 1.
C3_Witness ==
  /\ IsKey("ArrowUp")
  /\ op.pre.commandHistoryIndex = 0
  /\ commandHistoryIndex = 1

\* C4: loadCommand(index), index null or < history.length, puts into the
\* editor the text the command at that index was given since the last
\* submitted command, if it was edited since, and its original text if not.
C4_LoadsEditedOrOriginal ==
  (op.name = "onKeyDown" /\ LoadedIndex(op, history) # NotLoaded) =>
    LET index == LoadedIndex(op, history)
    IN value = IF index \in DOMAIN userEdits THEN userEdits[index]
                                              ELSE Original(index)

\* C5: when loadCommand loads a history index > history.length - BUFFER_SIZE
\* while no fetch is in flight and the history is not fully loaded, a fetch
\* is started; loading the null index or an index out of range starts none.
C5_BackfillNearEdge ==
  [][ (op'.name = "onKeyDown" /\ op'.did.loadCalls # <<>>) =>
        LET index == op'.did.loadCalls[1]
        IN /\ ( /\ index # Null
                /\ index < Len(history)
                /\ index > Len(history) - BUFFER_SIZE
                /\ loadingPromise = "none"
                /\ bufferIndex # Null )
              => /\ op'.did.fetchStarts = 1
                 /\ loadingPromise' = "table"
                 /\ remote' = "getTable"
                 /\ pc' = "awaitTable"
           /\ (index = Null \/ index >= Len(history))
              => /\ op'.did.fetchStarts = 0
                 /\ UNCHANGED << loadingPromise, remote, pc >>
    ]_vars

\* ArrowUp has loaded index 1 of a history of at least BUFFER_SIZE commands
\* and started a fetch.
C5_Witness ==
  /\ IsKey("ArrowUp")
  /\ Len(history) >= BUFFER_SIZE
  /\ commandHistoryIndex = 1
  /\ op.did.fetchStarts = 1
  /\ loadingPromise = "table"

\* C6 as stated: a request for more history made while a fetch is in
\* flight cancels that fetch and starts the fetch that wins.
C6_RequestSupersedes ==
  [][ (op'.did.loadMoreCalls > 0 /\ loadingPromise # "none") =>
        op'.did.fetchStarts = 1
    ]_vars

\* C6 amended: a request for more history made while a fetch is in flight
\* is ignored: no fetch is started, the fetch in flight is not canceled and
\* goes on from where it is, and its page is the one that is applied.
C6_RequestInFlightIgnored ==
  [][ (op'.did.loadMoreCalls > 0 /\ loadingPromise # "none") =>
        /\ op'.did.fetchStarts = 0
        /\ UNCHANGED << loadingPromise, hasCanceled, pc, remote, viewportTop,
                        tableState, bufferIndex >>
    ]_vars

\* loadCommand has asked for more history while a fetch was in flight.
C6_Witness ==
  /\ op.name = "onKeyDown"
  /\ op.did.loadMoreCalls = 1
  /\ op.did.fetchStarts = 0
  /\ bufferIndex # Null
  /\ loadingPromise = "data"
  /\ ~hasCanceled

\* C7: once the component is unmounted, history and bufferIndex never
\* change, however the remote calls of a fetch that was in flight settle.
C7_NoChangeAfterUnmount ==
  [][ lifecycle = "unmounted" => UNCHANGED << history, bufferIndex >> ]_vars

\* The viewport data of a fetch canceled by the unmount has arrived.
C7_Witness ==
  /\ lifecycle = "unmounted"
  /\ op.name = "getViewportDataResolves"
  /\ hasCanceled
  /\ bufferIndex = 0
  /\ history = <<>>

\* C8, for a fetch that has ended: when a fetch was canceled, its remote
\* calls have settled and it obtained the table, the table is closed.
C8_CanceledFetchClosesTable ==
  (hasCanceled /\ remote = "none" /\ pc = "idle" /\ tableState # "none")
    => tableState = "closed"

\* C9: a fetch that fails or is canceled leaves history and bufferIndex as
\* they were when it started and clears loadingPromise, so that a later
\* request fetches the same page; a failure is logged, a cancellation not.
\* While a fetch is in flight only its success changes bufferIndex, and the
\* viewport it asks for starts at bufferIndex.
C9_FailedFetchIsNoOp ==
  [][ /\ (pc # "idle" /\ op'.name # "getViewportDataResolves")
        => bufferIndex' = bufferIndex /\ bufferIndex # Null
      /\ pc = "awaitData" => viewportTop = bufferIndex
      /\ (pc # "idle" /\ pc' = "idle" /\ op'.name # "getViewportDataResolves")
        => /\ history' = history
           /\ loadingPromise' = "none"
           /\ op'.did.errorsLogged =
                IF op'.name = "canceledRejection" THEN 0 ELSE 1
    ]_vars

\* The fetch of the second page has failed: the component still asks for
\* the second page.
C9_Witness ==
  /\ op.name = "getViewportDataRejects"
  /\ op.did.errorsLogged = 1
  /\ lifecycle = "mounted"
  /\ loadingPromise = "none"
  /\ bufferIndex = BUFFER_SIZE
  /\ Len(history) >= BUFFER_SIZE

\* C10 as stated: after setConsoleText, commandHistoryIndex is null, for
\* every text.
C10_SetConsoleTextResetsIndex ==
  op.name = "setConsoleText" => commandHistoryIndex = Null

\* C10 amended: after setConsoleText with a text that is not empty,
\* commandHistoryIndex is null, whatever the flags; with the empty text
\* commandHistoryIndex is what it was.
C10_NonEmptyTextResetsIndex ==
  op.name = "setConsoleText" =>
    commandHistoryIndex =
      IF op.in.text # <<>> THEN Null ELSE op.pre.commandHistoryIndex

\* setConsoleText has put a text into the editor while a history index was
\* being browsed.
C10_Witness ==
  /\ op.name = "setConsoleText"
  /\ op.in.text # <<>>
  /\ ~op.in.execute
  /\ op.pre.commandHistoryIndex # Null
  /\ commandHistoryIndex = Null

\* C12: setConsoleText with a text that is not empty sets the text of the
\* editor only when it does not run the command: without execute the text
\* of the editor becomes the given text and onSubmit is not called; with
\* execute the text of the editor stays and onSubmit is called once, with
\* the given text; with the empty text nothing of the component changes.
C12_SetsTextOrSubmits ==
  [][ op'.name = "setConsoleText" =>
        IF op'.in.text = <<>>
          THEN /\ op'.did.submitted = <<>>
               /\ UNCHANGED << commandHistoryIndex, bufferIndex, history,
                               modifiedCommands, loadingPromise, value,
                               lineNumber, pc, remote, hasCanceled,
                               viewportTop, tableState >>
          ELSE IF op'.in.execute
            THEN value' = value /\ op'.did.submitted = << op'.in.text >>
            ELSE value' = op'.in.text /\ op'.did.submitted = <<>>
    ]_vars

\* setConsoleText has run a command that is not the text of the editor.
C12_Witness ==
  /\ op.name = "setConsoleText"
  /\ op.in.execute
  /\ op.did.submitted = << op.in.text >>
  /\ value # op.in.text
  /\ value # <<>>

\* C13: a submission calls onSubmit once, with the command (for Enter the
\* trimmed text of the editor), also when the command is empty or repeats
\* the last one; the command is appended to history when it is not empty
\* and differs from the last entry of history, and history stays as it is
\* otherwise.
C13_SubmitsOnceAppendsNew ==
  [][ ( \/ op'.name = "onKeyDown" /\ op'.in.handled /\ op'.in.code = "Enter"
        \/ /\ op'.name = "setConsoleText"
           /\ op'.in.execute
           /\ op'.in.text # <<>> ) =>
        LET command == IF op'.name = "onKeyDown" THEN trim(value)
                                                  ELSE op'.in.text
            isNew == /\ command # <<>>
                     /\ \/ history = <<>>
                        \/ history[Len(history)] # command
        IN /\ op'.did.submitted = << command >>
           /\ history' = IF isNew THEN history \o << command >> ELSE history
    ]_vars

\* Enter has submitted the command that is the last entry of history:
\* onSubmit was called with it and history has it once.
C13_Witness ==
  /\ IsKey("Enter")
  /\ op.did.submitted = << <<"a">> >>
  /\ Len(history) >= 2
  /\ history[Len(history)] = <<"a">>
  /\ history[Len(history) - 1] # <<"a">>
  /\ acts = 0

\* C15: commandHistoryIndex is null or an index of history.
C15_IndexInHistory ==
  \/ commandHistoryIndex = Null
  \/ commandHistoryIndex >= 0 /\ commandHistoryIndex < Len(history)

\* The oldest command of a history of two commands is being browsed.
C15_Witness ==
  /\ commandHistoryIndex = 1
  /\ Len(history) = 2
  /\ value = history[1]

\* The step is the completion of a fetch that was not canceled.
FetchSucceeds == op'.name = "getViewportDataResolves" /\ ~hasCanceled

\* C14: the fetches that succeed ask for the viewports [0, 99], [100, 199],
\* ... in that order: the viewport of a fetch starts at bufferIndex, a
\* multiple of BUFFER_SIZE, and its success moves bufferIndex on by
\* BUFFER_SIZE, or to null when that reaches table.size; a table without
\* repeated rows gives history the rows of that viewport.  Once bufferIndex
\* is null it stays null and no fetch is started.
C14_PageByPageToTheEnd ==
  [][ /\ FetchSucceeds =>
           /\ viewportTop = bufferIndex
           /\ bufferIndex # Null
           /\ bufferIndex % BUFFER_SIZE = 0
           /\ bufferIndex' = IF bufferIndex + BUFFER_SIZE >= table.size
                               THEN Null ELSE bufferIndex + BUFFER_SIZE
           /\ ~table.dup =>
                Len(history') - Len(history) =
                  IF table.size - bufferIndex < BUFFER_SIZE
                    THEN table.size - bufferIndex ELSE BUFFER_SIZE
      /\ bufferIndex = Null =>
           /\ bufferIndex' = Null
           /\ op'.did.fetchStarts = 0
           /\ UNCHANGED << loadingPromise, pc, remote >>
    ]_vars

\* The second page of the table of 200 rows has arrived: the history is
\* fully loaded.
C14_Witness ==
  /\ op.name = "getViewportDataResolves"
  /\ table.size = 2 * BUFFER_SIZE
  /\ bufferIndex = Null
  /\ Len(history) >= 2 * BUFFER_SIZE
  /\ loadingPromise = "none"

\* C16: a fetch is started only when none is in flight, and one at a time;
\* a call of loadMoreHistory while a fetch is in flight, in either stage,
\* starts none and leaves the fetch, bufferIndex and history as they are.
C16_OneFetchAtATime ==
  [][ /\ op'.did.fetchStarts > 0 =>
           /\ op'.did.fetchStarts = 1
           /\ pc = "idle"
           /\ remote = "none"
           /\ loadingPromise = "none"
      /\ (op'.did.loadMoreCalls > 0 /\ pc # "idle") =>
           /\ op'.did.fetchStarts = 0
           /\ UNCHANGED << pc, remote, loadingPromise, hasCanceled,
                           viewportTop, tableState, bufferIndex, history >>
      /\ pc # "idle" <=> (loadingPromise # "none")
    ]_vars

\* loadCommand has asked for more history while the fetch started at mount
\* was waiting for the table.
C16_Witness ==
  /\ op.name = "onKeyDown"
  /\ op.did.loadMoreCalls = 1
  /\ op.did.fetchStarts = 0
  /\ loadingPromise = "table"
  /\ pc = "awaitTable"
  /\ remote = "getTable"
  /\ commandHistoryIndex = 0

\* C17: the completion of a fetch only puts older commands in front: every
\* index that was valid denotes the same command as before, so the commands
\* submitted while the fetch was in flight stay the newest, in their order;
\* the index being browsed and the editor are not touched.
C17_CompletionOnlyPrepends ==
  [][ FetchSucceeds =>
        /\ Len(history') >= Len(history)
        /\ \A i \in 0..(Len(history) - 1) :
             history'[Len(history') - i] = history[Len(history) - i]
        /\ UNCHANGED << commandHistoryIndex, modifiedCommands, value >>
    ]_vars

\* A page has arrived while the user was browsing the command submitted
\* during the fetch: it is still the newest command, at index 0.
C17_Witness ==
  /\ op.name = "getViewportDataResolves"
  /\ ~hasCanceled
  /\ Len(history) > 1
  /\ history[Len(history)] = <<"b", "\n", "a">>
  /\ commandHistoryIndex = 0
  /\ value = history[Len(history)]

\* The positions of the factories of the last render that give a condition.
GivesCondition ==
  { i \in 1..Len(filterHook.factories) :
      IsCondition(ApplyFactory(filterHook.factories[i], filterHook.maybeTable)) }

\* C11: useFilterConditionFactories(table, f1..fn) returns f1(table), ...,
\* fn(table) in the order of the factories, without the null and undefined
\* results: as many conditions as factories give one, the j-th being the
\* result of the j-th such factory for the given table; and a render that
\* applies the factories applies each once, to the given table.
C11_ConditionsInFactoryOrder ==
  filterHook.rendered =>
    /\ Len(filterHook.returned) = Cardinality(GivesCondition)
    /\ \A j \in 1..Len(filterHook.returned) :
         LET i == CHOOSE k \in GivesCondition :
                    Cardinality({m \in GivesCondition : m <= k}) = j
         IN filterHook.returned[j] =
              ApplyFactory(filterHook.factories[i], filterHook.maybeTable)
    /\ \A j \in 1..Len(filterHook.returned) :
         IsCondition(filterHook.returned[j])
    /\ filterHook.applied # <<>> =>
         filterHook.applied =
           [i \in 1..Len(filterHook.factories) |-> filterHook.maybeTable]

====
